---- MODULE Spec2Model ----
(***************************************************************************)
(* Model of builder/penv_setup.py: provisioning and self-healing of the    *)
(* Python virtual environment "penv" and reconciliation of its packages    *)
(* against the python_deps manifest.                                       *)
(*                                                                         *)
(* The file system is the persistent state; one process at a time runs one *)
(* of the entry points (SCons mode, minimal mode, or a direct call of      *)
(* setup_pipenv_in_package) step by step, and may be killed between steps. *)
(* External tools (uv, python -m venv, pip) are nondeterministic: each     *)
(* call draws one of the outcomes the tool can produce.                    *)
(***************************************************************************)
EXTENDS Integers, Sequences, FiniteSets, TLC

\* ------------------------------------------------------------------ bounds

\* How many processes run one after another over the same file system.
MaxRuns == 2

\* ------------------------------------------------------------- environment

\* Environment roots a run can end up operating on: <platformio_dir>/penv and
\* the relative directory "uv" (the return value of _setup_pipenv_minimal used
\* as a directory by _setup_python_environment_core).
PENV == "penv"
CWDUV == "uv"
Roots == {PENV, CWDUV}

\* Value of the local penv_dir of _setup_python_environment_core.
NoneDir == "None"
Unset == "unset"

Modes == {"scons", "minimal", "package"}

VARIABLES
    rootExists,    \* penv directory exists
    marker,        \* penv/pioarduino_py is a file
    python,        \* python[r]: <r>/bin/python is a file
    uvExe,         \* uvExe[r]: <r>/bin/uv runs
    installed,     \* installed[r][p]: version string of p in r, or Absent
    pc,            \* position of the running process
    mode,          \* entry point of the running process
    interpInside,  \* sys.executable of the running process lies inside penv
    baseAlive,     \* the base interpreter (sys.executable / $PYTHONEXE) still exists
    runs,          \* processes started so far
    penvDir,       \* local penv_dir of _setup_python_environment_core
    verdict,       \* what the entry point's health check decided in this run
    uvSuccess,     \* local uv_success of setup_pipenv_in_package
    calls,         \* calls issued by this run, in order
    manifest,      \* the deps argument of get_packages_to_install
    installed_packages, \* the installed_packages argument: the parsed listing
    packages_to_install, \* list(get_packages_to_install(...)), a local of install_python_deps
    reconciled,    \* the last install_python_deps that returned True: where, when, and what it left
    result,        \* how the last run ended
    retval         \* value returned by the entry point

fsVars == <<rootExists, marker, python, uvExe, installed>>
procVars == <<pc, mode, interpInside, baseAlive, runs, penvDir, verdict,
              uvSuccess, calls, manifest, installed_packages, packages_to_install,
              reconciled,
              result, retval>>
vars == <<rootExists, marker, python, uvExe, installed, pc, mode, interpInside,
          baseAlive, runs, penvDir, verdict, uvSuccess, calls, manifest,
          installed_packages, packages_to_install, reconciled, result, retval>>
depsLocals == <<manifest, installed_packages, packages_to_install, reconciled>>

\* ---------------------------------------------------- versions and manifest

\* A version string as the package listing or a URL prints it: its numeric
\* components, one to three of them ("14.0" is <<14, 0>>). Absent: not in the
\* installed set. NoToken: the URL has no trailing version token.
Absent == <<>>
NoToken == <<>>

\* platformio.package.version.pepver_to_semver for numeric versions:
\* semantic_version.Version.coerce pads the missing components with zero.
pepver_to_semver(v) ==
    << v[1],
       IF Len(v) >= 2 THEN v[2] ELSE 0,
       IF Len(v) >= 3 THEN v[3] ELSE 0 >>

\* Precedence of semantic versions (major, minor, patch).
SemverLess(a, b) ==
    \/ a[1] < b[1]
    \/ a[1] = b[1] /\ a[2] < b[2]
    \/ a[1] = b[1] /\ a[2] = b[2] /\ a[3] < b[3]

\* One clause of a semantic_version.SimpleSpec, the bound coerced as SimpleSpec
\* does ("<2" is "<2.0.0").
ClauseMatch(c, v) ==
    CASE c.op = ">=" -> ~SemverLess(v, pepver_to_semver(c.ver))
      [] c.op = "<"  -> SemverLess(v, pepver_to_semver(c.ver))
      [] c.op = "<=" -> ~SemverLess(pepver_to_semver(c.ver), v)
      [] c.op = "==" -> v = pepver_to_semver(c.ver)

\* semantic_version.SimpleSpec(spec).match(v): comma-combined clauses are a
\* conjunction.
SimpleSpecMatch(spec, v) == \A c \in spec.clauses : ClauseMatch(c, v)

Url(tok) == [kind |-> "url", token |-> tok, clauses |-> {}]
Range(cs) == [kind |-> "range", token |-> NoToken, clauses |-> cs]
Ge(v) == [op |-> ">=", ver |-> v]
Lt(v) == [op |-> "<", ver |-> v]

\* PLATFORMIO_URL_VERSION_RE.search(spec): group 1 of the match, or NoToken.
\* The pattern needs a "/" before the version, so no range expression matches.
PLATFORMIO_URL_VERSION_RE(spec) ==
    IF spec.kind = "url" THEN spec.token ELSE NoToken

\* str.lower() on the package names the model uses.
Lower(name) ==
    CASE name = "Beta" -> "beta"
      [] name = "PyYAML" -> "pyyaml"
      [] OTHER -> name

\* Mutant of Decide: a range requirement that matches selects the package.
DecideMatchSelects(package, spec, inst) ==
    LET name == Lower(package) IN
    IF inst[name] = Absent THEN "yield"
    ELSE IF name = "platformio" THEN
        LET m == PLATFORMIO_URL_VERSION_RE(spec) IN
        IF m # NoToken
        THEN IF inst[name] # pepver_to_semver(m) THEN "yield" ELSE "skip"
        ELSE "skip"
    ELSE IF spec.kind = "url" THEN "raise"
    ELSE IF SimpleSpecMatch(spec, inst[name]) THEN "yield" ELSE "skip"

\* The decision of get_packages_to_install for one manifest entry:
\* "yield" (selected), "skip", or "raise" (SimpleSpec rejects a URL).
Decide(package, spec, inst) ==
    LET name == Lower(package) IN
    IF inst[name] = Absent THEN "yield"
    ELSE IF name = "platformio" THEN
        LET m == PLATFORMIO_URL_VERSION_RE(spec) IN
        IF m # NoToken
        THEN IF inst[name] # pepver_to_semver(m) THEN "yield" ELSE "skip"
        ELSE "skip"
    ELSE IF spec.kind = "url" THEN "raise"
    ELSE IF ~SimpleSpecMatch(spec, inst[name]) THEN "yield" ELSE "skip"

Raised == <<"raised">>

RECURSIVE Selected(_, _, _)
Selected(deps, inst, i) ==
    IF i > Len(deps) THEN <<>>
    ELSE IF Decide(deps[i].name, deps[i].spec, inst) = "yield"
         THEN <<deps[i].name>> \o Selected(deps, inst, i + 1)
         ELSE Selected(deps, inst, i + 1)

\* list(get_packages_to_install(deps, installed_packages)): the selected
\* names in manifest order, or Raised when the generator raises.
get_packages_to_install(deps, inst) ==
    IF \E i \in 1..Len(deps) : Decide(deps[i].name, deps[i].spec, inst) = "raise"
    THEN Raised
    ELSE Selected(deps, inst, 1)

\* python_deps: one entry of each shape the manifest holds (a pinned source
\* URL, a lower bound, an upper bound).
python_deps ==
    << [name |-> "platformio", spec |-> Url(<<6, 1, 18>>)],
       [name |-> "pyyaml",     spec |-> Range({Ge(<<6, 0, 2>>)})],
       [name |-> "urllib3",    spec |-> Range({Lt(<<2>>)})] >>

DepNames == {python_deps[i].name : i \in 1..Len(python_deps)}

\* Version strings the listing may report for a package of python_deps: on
\* both sides of its requirement's boundary.
ListedVersions(p) ==
    CASE p = "platformio" -> {<<6, 1, 17>>, <<6, 1, 18>>}
      [] p = "pyyaml"     -> {<<6, 0, 1>>, <<6, 0, 2>>}
      [] p = "urllib3"    -> {<<1, 26, 20>>, <<2>>}

NothingInstalled == [p \in DepNames |-> Absent]

\* No install_python_deps has returned True yet.
NoReconcile == [root |-> "none", pkgs |-> NothingInstalled, run |-> 0, n |-> 0]

PackageSets == {f \in [DepNames -> UNION {ListedVersions(p) : p \in DepNames} \cup {Absent}] :
                    \A p \in DepNames : f[p] = Absent \/ f[p] \in ListedVersions(p)}

AllSatisfied ==
    [p \in DepNames |->
        CASE p = "platformio" -> <<6, 1, 18>>
          [] p = "pyyaml"     -> <<6, 0, 2>>
          [] p = "urllib3"    -> <<1, 26, 20>>]

\* ------------------------------------------------------------ initial state

\* Any penv a previous installation or an interrupted run can leave behind,
\* and a working directory that may or may not hold an environment named "uv".
Init ==
    /\ rootExists \in BOOLEAN
    /\ marker \in BOOLEAN
    /\ python \in [Roots -> BOOLEAN]
    /\ uvExe \in [Roots -> BOOLEAN]
    /\ installed \in [Roots -> PackageSets]
    /\ (marker \/ python[PENV]) => rootExists
    /\ \A r \in Roots : uvExe[r] => python[r]
    /\ ~python[PENV] => installed[PENV] = NothingInstalled
    /\ installed[CWDUV] = IF python[CWDUV] THEN AllSatisfied ELSE NothingInstalled
    /\ pc = "idle"
    /\ mode = "scons"
    /\ interpInside = FALSE
    /\ baseAlive = TRUE
    /\ runs = 0
    /\ penvDir = Unset
    /\ verdict = "none"
    /\ uvSuccess = FALSE
    /\ calls = <<>>
    /\ manifest = python_deps
    /\ installed_packages = NothingInstalled
    /\ packages_to_install = <<>>
    /\ reconciled = NoReconcile
    /\ result = "none"
    /\ retval = Unset

\* --------------------------------------------------------------- helpers

\* One external call or check a run makes: what was called, on what, and how
\* it came out ("" where the outcome is not recorded).
Call(op, args, out) == [op |-> op, args |-> args, out |-> out]
Issue(op, args) == calls' = Append(calls, Call(op, args, ""))
IssueOut(op, args, out) == calls' = Append(calls, Call(op, args, out))

\* EnvironmentHealthCheck of spec 4.3: the marker and the interpreter.
IsHealthy == marker /\ python[PENV]

\* The process ends: sys.exit(1), an uncaught exception, a return to the
\* caller, or a kill.
Finish(how, value) ==
    /\ pc' = "idle"
    /\ result' = how
    /\ retval' = value

\* shutil.rmtree(penv_dir) ran to the end.
RmtreeDone ==
    /\ rootExists' = FALSE
    /\ marker' = FALSE
    /\ python' = [python EXCEPT ![PENV] = FALSE]
    /\ uvExe' = [uvExe EXCEPT ![PENV] = FALSE]
    /\ installed' = [installed EXCEPT ![PENV] = NothingInstalled]
    /\ baseAlive' = IF interpInside THEN FALSE ELSE baseAlive

\* shutil.rmtree(penv_dir) stopped part way (an OSError such as a locked
\* file, or the process being killed): some of the files are gone.
RmtreePartial ==
    /\ rootExists' = TRUE
    /\ marker' \in {marker, FALSE}
    /\ python' \in {python, [python EXCEPT ![PENV] = FALSE]}
    /\ uvExe' = [uvExe EXCEPT ![PENV] = uvExe[PENV] /\ python'[PENV]]
    /\ installed' = [installed EXCEPT ![PENV] =
                        IF python'[PENV] THEN installed[PENV] ELSE NothingInstalled]
    /\ baseAlive' = IF interpInside THEN python'[PENV] ELSE baseAlive

\* Outcomes of "uv venv --clear --python=<base> <penv>" and of
\* "<base> -m venv --clear <penv>": exit 0 with the interpreter in place, exit
\* 0 without it, failure before anything was touched (tool or base
\* interpreter missing, non-zero exit), failure after the directory was
\* cleared, and failure (a timeout) after the interpreter was laid down.
VenvOutcomes ==
    IF baseAlive
    THEN {"ok", "ok_nopy", "fail", "fail_cleared", "fail_late"}
    ELSE {"fail"}

VenvExitZero(o) == o \in {"ok", "ok_nopy"}

VenvEffect(o) ==
    IF o = "fail"
    THEN UNCHANGED fsVars
    ELSE /\ rootExists' = TRUE
         /\ marker' = FALSE
         /\ python' = [python EXCEPT ![PENV] = (o \in {"ok", "fail_late"})]
         /\ uvExe' = [uvExe EXCEPT ![PENV] = FALSE]
         /\ installed' = [installed EXCEPT ![PENV] = NothingInstalled]

\* marker_file.write_text("required by pioarduino\n")
WriteMarker ==
    /\ marker' = TRUE
    /\ UNCHANGED <<rootExists, python, uvExe, installed>>

\* ------------------------------------------------------------ entry points

\* A process starts one of the entry points. A process whose interpreter lies
\* inside penv runs from penv's interpreter file, which therefore exists.
Start ==
    /\ pc = "idle"
    /\ runs < MaxRuns
    /\ \E m \in Modes, inside \in BOOLEAN :
        /\ inside => (python[PENV] /\ m # "package")
        /\ mode' = m
        /\ interpInside' = inside
        /\ pc' = CASE m = "scons" -> "ensure_check"
                   [] m = "minimal" -> "min_check"
                   [] m = "package" -> "pkg_check"
    /\ runs' = runs + 1
    /\ baseAlive' = TRUE
    /\ penvDir' = Unset
    /\ verdict' = "none"
    /\ uvSuccess' = FALSE
    /\ calls' = <<>>
    /\ installed_packages' = NothingInstalled
    /\ packages_to_install' = <<>>
    /\ UNCHANGED <<manifest, reconciled, result, retval>>
    /\ UNCHANGED fsVars

\* Mutant of EnsureCheck: only the interpreter file is looked at.
EnsureCheckInterpreterOnly ==
    /\ pc = "ensure_check"
    /\ IF ~python[PENV]
       THEN /\ verdict' = "rebuild"
            /\ pc' = "ensure_rmtree"
            /\ UNCHANGED penvDir
       ELSE /\ verdict' = "healthy"
            /\ pc' = "core_python"
            /\ penvDir' = PENV
    /\ UNCHANGED <<mode, interpInside, baseAlive, runs, uvSuccess, calls, depsLocals,
                   result, retval>>
    /\ UNCHANGED fsVars

\* ensure_penv_with_uv, lines 88-92: the health check.
EnsureCheck ==
    /\ pc = "ensure_check"
    /\ IF ~marker \/ ~python[PENV]
       THEN /\ verdict' = "rebuild"
            /\ pc' = "ensure_rmtree"
            /\ UNCHANGED penvDir
       ELSE /\ verdict' = "healthy"
            /\ pc' = "core_python"
            /\ penvDir' = PENV
    /\ UNCHANGED <<mode, interpInside, baseAlive, runs, uvSuccess, calls, depsLocals,
                   result, retval>>
    /\ UNCHANGED fsVars

\* ensure_penv_with_uv, lines 93-94: the recursive delete, in this process.
EnsureRmtree ==
    /\ pc = "ensure_rmtree"
    /\ IF rootExists
       THEN /\ Issue("rmtree", <<PENV>>)
            /\ \/ RmtreeDone /\ pc' = "ensure_uv" /\ UNCHANGED <<result, retval>>
               \/ RmtreePartial /\ Finish("raised", Unset)
       ELSE /\ pc' = "ensure_uv"
            /\ UNCHANGED <<calls, baseAlive, result, retval>>
            /\ UNCHANGED fsVars
    /\ UNCHANGED <<mode, interpInside, runs, penvDir, verdict, uvSuccess,
                   depsLocals>>

\* ensure_penv_with_uv, lines 95-103: uv venv, and sys.exit(1) when it fails.
EnsureUvVenv ==
    /\ pc = "ensure_uv"
    /\ Issue("uv_venv", <<PENV>>)
    /\ \E o \in VenvOutcomes :
        /\ VenvEffect(o)
        /\ IF VenvExitZero(o)
           THEN pc' = "ensure_marker" /\ UNCHANGED <<result, retval>>
           ELSE Finish("exit1", Unset)
    /\ UNCHANGED <<mode, interpInside, baseAlive, runs, penvDir, verdict, uvSuccess,
                   depsLocals>>

\* ensure_penv_with_uv, lines 104-106: the marker, and the return value.
EnsureWriteMarker ==
    /\ pc = "ensure_marker"
    /\ Issue("write_marker", <<PENV>>)
    /\ WriteMarker
    /\ penvDir' = PENV
    /\ pc' = "core_python"
    /\ UNCHANGED <<mode, interpInside, baseAlive, runs, verdict, uvSuccess,
                   depsLocals, result, retval>>

\* Mutant of MinCheck: the rebuild is not guarded by the health check.
MinCheckAlwaysRebuild ==
    /\ pc = "min_check"
    /\ verdict' = IF ~marker \/ ~python[PENV] THEN "rebuild" ELSE "healthy"
    /\ pc' = "min_rmtree"
    /\ UNCHANGED penvDir
    /\ UNCHANGED <<mode, interpInside, baseAlive, runs, uvSuccess, calls, depsLocals,
                   result, retval>>
    /\ UNCHANGED fsVars

\* _setup_pipenv_minimal, lines 164-167 and 193: the health check; the healthy
\* branch returns None.
MinCheck ==
    /\ pc = "min_check"
    /\ IF ~marker \/ ~python[PENV]
       THEN /\ verdict' = "rebuild"
            /\ pc' = "min_rmtree"
            /\ UNCHANGED penvDir
       ELSE /\ verdict' = "healthy"
            /\ pc' = "core_python"
            /\ penvDir' = NoneDir
    /\ UNCHANGED <<mode, interpInside, baseAlive, runs, uvSuccess, calls, depsLocals,
                   result, retval>>
    /\ UNCHANGED fsVars

\* _setup_pipenv_minimal, lines 169-170: the recursive delete, in this process.
MinRmtree ==
    /\ pc = "min_rmtree"
    /\ IF rootExists
       THEN /\ Issue("rmtree", <<PENV>>)
            /\ \/ RmtreeDone /\ pc' = "min_uv" /\ UNCHANGED <<result, retval>>
               \/ RmtreePartial /\ Finish("raised", Unset)
       ELSE /\ pc' = "min_uv"
            /\ UNCHANGED <<calls, baseAlive, result, retval>>
            /\ UNCHANGED fsVars
    /\ UNCHANGED <<mode, interpInside, runs, penvDir, verdict, uvSuccess,
                   depsLocals>>

\* _setup_pipenv_minimal, lines 171-176 and 180-182: uv venv; a failure falls
\* through to python -m venv.
MinUvVenv ==
    /\ pc = "min_uv"
    /\ Issue("uv_venv", <<PENV>>)
    /\ \E o \in VenvOutcomes :
        /\ VenvEffect(o)
        /\ pc' = IF VenvExitZero(o) THEN "min_marker_uv" ELSE "min_venv"
    /\ UNCHANGED <<mode, interpInside, baseAlive, runs, penvDir, verdict, uvSuccess,
                   depsLocals, result, retval>>

\* _setup_pipenv_minimal, lines 177-179: the marker, then "return uv_cmd":
\* the caller receives the string "uv".
MinMarkerUv ==
    /\ pc = "min_marker_uv"
    /\ Issue("write_marker", <<PENV>>)
    /\ WriteMarker
    /\ penvDir' = CWDUV
    /\ pc' = "core_python"
    /\ UNCHANGED <<mode, interpInside, baseAlive, runs, verdict, uvSuccess,
                   depsLocals, result, retval>>

\* _setup_pipenv_minimal, lines 183-186 and 190-192: python -m venv with the
\* same base interpreter, and sys.exit(1) when it fails too.
MinVenv ==
    /\ pc = "min_venv"
    /\ Issue("venv", <<PENV>>)
    /\ \E o \in VenvOutcomes :
        /\ VenvEffect(o)
        /\ IF VenvExitZero(o)
           THEN pc' = "min_marker_venv" /\ UNCHANGED <<result, retval>>
           ELSE Finish("exit1", Unset)
    /\ UNCHANGED <<mode, interpInside, baseAlive, runs, penvDir, verdict, uvSuccess,
                   depsLocals>>

\* _setup_pipenv_minimal, lines 187-189: the marker, then "return None".
MinMarkerVenv ==
    /\ pc = "min_marker_venv"
    /\ Issue("write_marker", <<PENV>>)
    /\ WriteMarker
    /\ penvDir' = NoneDir
    /\ pc' = "core_python"
    /\ UNCHANGED <<mode, interpInside, baseAlive, runs, verdict, uvSuccess,
                   depsLocals, result, retval>>

\* setup_pipenv_in_package, lines 120 and 150: only the interpreter file is
\* looked at; when it is there the function returns None.
PkgCheck ==
    /\ pc = "pkg_check"
    /\ IF ~python[PENV]
       THEN /\ verdict' = "rebuild"
            /\ pc' = "pkg_uv"
            /\ UNCHANGED <<result, retval>>
       ELSE /\ verdict' = "healthy"
            /\ Finish("returned", NoneDir)
    /\ UNCHANGED <<mode, interpInside, baseAlive, runs, penvDir, uvSuccess, calls,
                   depsLocals>>
    /\ UNCHANGED fsVars

\* setup_pipenv_in_package, lines 121-136: uv venv inside try/except.
PkgUvVenv ==
    /\ pc = "pkg_uv"
    /\ Issue("uv_venv", <<PENV>>)
    /\ \E o \in VenvOutcomes :
        /\ VenvEffect(o)
        /\ uvSuccess' = VenvExitZero(o)
        /\ pc' = IF VenvExitZero(o) THEN "pkg_verify" ELSE "pkg_venv"
    /\ UNCHANGED <<mode, interpInside, baseAlive, runs, penvDir, verdict,
                   depsLocals, result, retval>>

\* setup_pipenv_in_package, lines 137-141: python -m venv through env.Execute,
\* which reports a failure by its return value, ignored here.
PkgVenv ==
    /\ pc = "pkg_venv"
    /\ Issue("venv", <<PENV>>)
    /\ \E o \in VenvOutcomes : VenvEffect(o)
    /\ pc' = "pkg_verify"
    /\ UNCHANGED <<mode, interpInside, baseAlive, runs, penvDir, verdict, uvSuccess,
                   depsLocals, result, retval>>

\* setup_pipenv_in_package, lines 142-147: the interpreter must be there.
PkgVerify ==
    /\ pc = "pkg_verify"
    /\ IF ~python[PENV]
       THEN Finish("exit1", Unset)
       ELSE pc' = "pkg_marker" /\ UNCHANGED <<result, retval>>
    /\ UNCHANGED <<mode, interpInside, baseAlive, runs, penvDir, verdict, uvSuccess, calls,
                   depsLocals>>
    /\ UNCHANGED fsVars

\* setup_pipenv_in_package, lines 148-149: the marker, then the return value.
PkgWriteMarker ==
    /\ pc = "pkg_marker"
    /\ Issue("write_marker", <<PENV>>)
    /\ WriteMarker
    /\ Finish("returned", IF uvSuccess THEN "uv" ELSE NoneDir)
    /\ UNCHANGED <<mode, interpInside, baseAlive, runs, penvDir, verdict, uvSuccess,
                   depsLocals>>

\* ------------------------------------------------------------------- kill

RmtreePcs == {"ensure_rmtree", "min_rmtree"}
VenvPcs == {"ensure_uv", "min_uv", "min_venv", "pkg_uv", "pkg_venv"}
MarkerPcs == {"ensure_marker", "min_marker_uv", "min_marker_venv", "pkg_verify",
              "pkg_marker"}
ProvisioningPcs == RmtreePcs \cup VenvPcs \cup MarkerPcs

\* The process is killed (spec 5: no cancellation support). A kill during
\* rmtree or during a venv tool leaves what that call had done so far.
Kill ==
    /\ pc # "idle"
    /\ IF pc \in RmtreePcs /\ rootExists
       THEN RmtreePartial
       ELSE IF pc \in VenvPcs
       THEN /\ \E o \in VenvOutcomes \ {"ok", "ok_nopy"} : VenvEffect(o)
            /\ UNCHANGED baseAlive
       ELSE UNCHANGED fsVars /\ UNCHANGED baseAlive
    /\ Finish(IF pc \in ProvisioningPcs THEN "killed_provisioning" ELSE "killed", Unset)
    /\ UNCHANGED <<mode, interpInside, runs, penvDir, verdict, uvSuccess, calls,
                   depsLocals>>

\* ---------------------------------------------- _setup_python_environment_core

procFrame == <<mode, interpInside, baseAlive, runs, penvDir, verdict, uvSuccess>>

\* Lines 382-391: penv_dir is what the provisioning function returned;
\* get_executable_path(None, ...) raises TypeError in Path(None); a missing
\* interpreter under penv_dir is fatal. setup_python_paths (195-208) only
\* extends this process's module search path.
CorePython ==
    /\ pc = "core_python"
    /\ IF penvDir = NoneDir
       THEN Finish("raised", Unset)
       ELSE IF ~python[penvDir]
       THEN Finish("exit1", Unset)
       ELSE pc' = "core_net" /\ UNCHANGED <<result, retval>>
    /\ UNCHANGED procFrame
    /\ UNCHANGED <<calls, depsLocals>>
    /\ UNCHANGED fsVars

\* Mutant of CoreNet: the CI override is ignored.
CoreNetProbeOnly ==
    /\ pc = "core_net"
    /\ \E online \in BOOLEAN, github_actions \in BOOLEAN :
        /\ Issue("net", <<IF online THEN "online" ELSE "offline",
                          IF github_actions THEN "ci" ELSE "noci">>)
        /\ pc' = IF online THEN "deps_probe" ELSE "esptool"
    /\ UNCHANGED procFrame
    /\ UNCHANGED <<depsLocals, result, retval>>
    /\ UNCHANGED fsVars

\* Lines 392-397 with has_internet_connection (51-60) and github_actions (27).
CoreNet ==
    /\ pc = "core_net"
    /\ \E online \in BOOLEAN, github_actions \in BOOLEAN :
        /\ Issue("net", <<IF online THEN "online" ELSE "offline",
                          IF github_actions THEN "ci" ELSE "noci">>)
        /\ pc' = IF online \/ github_actions THEN "deps_probe" ELSE "esptool"
    /\ UNCHANGED procFrame
    /\ UNCHANGED <<depsLocals, result, retval>>
    /\ UNCHANGED fsVars

\* install_python_deps, lines 249-260: "<penv>/bin/uv --version". A missing
\* executable fails the probe; one that is there may still time out.
DepsProbe ==
    /\ pc = "deps_probe"
    /\ \E uv_in_penv_available \in {b \in BOOLEAN : b => uvExe[penvDir]} :
        /\ IssueOut("uv_version", <<penvDir>>,
                    IF uv_in_penv_available THEN "ok" ELSE "failed")
        /\ pc' = IF uv_in_penv_available THEN "deps_list" ELSE "deps_bootstrap"
    /\ UNCHANGED procFrame
    /\ UNCHANGED <<depsLocals, result, retval>>
    /\ UNCHANGED fsVars

\* Lines 391 and 393: the caller passes get_executable_path(penv_dir, "uv") as
\* external_uv_executable, the path of the uv inside the environment itself,
\* never None.
ExternalUvExecutable == penvDir

\* Mutant of DepsFatal: the False of install_python_deps is ignored.
DepsFatalIgnored == pc' = "esptool" /\ UNCHANGED <<result, retval>>

\* Lines 393-395: install_python_deps returned False; the setup exits 1.
DepsFatal == Finish("exit1", Unset)

\* install_python_deps, lines 263-279: uv was not found usable inside the
\* environment. With external_uv_executable given, uv is installed by running
\* that executable (264-271), otherwise by "python -m pip" (272-279). A failure
\* returns False.
DepsBootstrap ==
    /\ pc = "deps_bootstrap"
    /\ IF ExternalUvExecutable # NoneDir
       THEN \E ok \in {b \in BOOLEAN : b => uvExe[ExternalUvExecutable]} :
               /\ IssueOut("uv_pip_install_uv", <<penvDir>>, IF ok THEN "ok" ELSE "failed")
               /\ IF ok
                  THEN pc' = "deps_list" /\ UNCHANGED <<result, retval>>
                  ELSE DepsFatal
               /\ UNCHANGED uvExe
       ELSE \E ok \in BOOLEAN :
               /\ IssueOut("pip_install_uv", <<penvDir>>, IF ok THEN "ok" ELSE "failed")
               /\ IF ok
                  THEN pc' = "deps_list" /\ UNCHANGED <<result, retval>>
                  ELSE DepsFatal
               /\ uvExe' = [uvExe EXCEPT ![penvDir] = uvExe[penvDir] \/ ok]
    /\ UNCHANGED procFrame
    /\ UNCHANGED depsLocals
    /\ UNCHANGED <<rootExists, marker, python, installed>>

\* The order in which the listing prints the packages (by name).
ListingOrder == <<"platformio", "pyyaml", "urllib3">>
ListingIndex(p) == CHOOSE i \in 1..Len(ListingOrder) : ListingOrder[i] = p

\* Outcomes of "uv pip list --format=json" as lines 286-294 see it: "ok";
\* "failed" (the call fails, exits non-zero, prints nothing or prints what
\* json.loads rejects); or the name of the listed package whose entry makes
\* the loop of lines 291-292 raise (no "version" key, a version
\* pepver_to_semver rejects).
ListingOutcomes(r) == {"ok", "failed"} \cup {q \in DepNames : installed[r][q] # Absent}

\* _get_installed_uv_packages, lines 281-295: result starts empty and is filled
\* entry by entry inside the try, each version run through pepver_to_semver;
\* whatever it holds when an exception is caught is returned.
ListedPackages(r, out) ==
    [p \in DepNames |->
        IF installed[r][p] = Absent \/ out = "failed" THEN Absent
        ELSE IF out = "ok" \/ ListingIndex(p) < ListingIndex(out)
        THEN pepver_to_semver(installed[r][p])
        ELSE Absent]

\* install_python_deps, lines 297-298: the listing and the delta.
DepsList ==
    /\ pc = "deps_list"
    /\ \E out \in ListingOutcomes(penvDir) :
        /\ IssueOut("uv_pip_list", <<penvDir>>, out)
        /\ installed_packages' = ListedPackages(penvDir, out)
        /\ packages_to_install' = get_packages_to_install(manifest, installed_packages')
        /\ IF packages_to_install' = Raised
           THEN Finish("raised", Unset)
           ELSE pc' = "deps_install" /\ UNCHANGED <<result, retval>>
    /\ UNCHANGED <<manifest, reconciled>>
    /\ UNCHANGED procFrame
    /\ UNCHANGED fsVars

\* python_deps[p] of line 302.
SpecOf(p) == manifest[CHOOSE i \in 1..Len(manifest) : manifest[i].name = p].spec

\* Mutant of PackagesList: only the first selected package is passed on.
PackagesListFirstOnly(ps) ==
    [i \in 1..1 |->
        IF SpecOf(ps[i]).kind = "url"
        THEN [pkg |-> "", req |-> SpecOf(ps[i])]
        ELSE [pkg |-> ps[i], req |-> SpecOf(ps[i])]]

\* Lines 300-306: a source reference is passed as it is, a range as name+spec.
PackagesList(ps) ==
    [i \in 1..Len(ps) |->
        IF SpecOf(ps[i]).kind = "url"
        THEN [pkg |-> "", req |-> SpecOf(ps[i])]
        ELSE [pkg |-> ps[i], req |-> SpecOf(ps[i])]]

\* What a successful "uv pip install --upgrade" leaves for a package: the
\* version the source reference names, or a version inside the range.
InstallableVersions(p) ==
    IF SpecOf(p).kind = "url"
    THEN {SpecOf(p).token}
    ELSE {v \in ListedVersions(p) : SimpleSpecMatch(SpecOf(p), pepver_to_semver(v))}

Range1(seq) == {seq[i] : i \in 1..Len(seq)}

\* install_python_deps returns True (line 318) for the environment r.
ReturnTrue(r, pkgs) ==
    /\ reconciled' = [root |-> r, pkgs |-> pkgs, run |-> runs,
                      n |-> Len(packages_to_install)]
    /\ pc' = "esptool"
    /\ UNCHANGED <<result, retval>>

\* install_python_deps, lines 299-318: one batched install when the delta is
\* not empty; its failure returns False.
DepsInstall ==
    /\ pc = "deps_install"
    /\ IF packages_to_install # <<>>
       THEN \E ok \in BOOLEAN :
                /\ calls' = Append(calls, Call("uv_pip_install",
                                               PackagesList(packages_to_install),
                                               IF ok THEN "ok" ELSE "failed"))
                /\ IF ok
                   THEN /\ \E new \in PackageSets :
                             /\ \A p \in DepNames :
                                   IF p \in Range1(packages_to_install)
                                   THEN new[p] \in InstallableVersions(p)
                                   ELSE new[p] = installed[penvDir][p]
                             /\ installed' = [installed EXCEPT ![penvDir] = new]
                        /\ ReturnTrue(penvDir, installed'[penvDir])
                   ELSE /\ DepsFatal
                        /\ UNCHANGED <<installed, reconciled>>
       ELSE /\ ReturnTrue(penvDir, installed[penvDir])
            /\ UNCHANGED <<calls, installed>>
    /\ UNCHANGED procFrame
    /\ UNCHANGED <<manifest, installed_packages, packages_to_install>>
    /\ UNCHANGED <<rootExists, marker, python, uvExe>>

\* Outcomes of the import probe of lines 334-345 / 418-429: the two answers
\* it prints, and a failure or timeout of the probe itself.
ProbeOutcomes == {"MATCH", "MISMATCH", "error"}

\* Mutant of NeedsInstall: a failed probe is taken for a match.
NeedsInstallMismatchOnly(probe) == probe = "MISMATCH"

\* Lines 342-345 / 426-429: only a printed MATCH returns early; a mismatch
\* and a failed probe both go on to the install.
NeedsInstall(probe) == probe # "MATCH"

\* platform.get_package_dir("tool-esptoolpy") and os.path.isdir, lines 330-331
\* and 415-416.
DirCheck(dirOk) == Call("get_package_dir", <<>>, IF dirOk THEN "dir" ELSE "absent")

\* The probe and, when it is needed, the one forced editable install of lines
\* 346-349 / 430-433.
EsptoolCalls(r, probe, ok) ==
    IF NeedsInstall(probe)
    THEN << Call("esptool_probe", <<r>>, probe),
            Call("esptool_install", <<r, "--force-reinstall", "-e">>,
                 IF ok THEN "ok" ELSE "failed") >>
    ELSE << Call("esptool_probe", <<r>>, probe) >>

\* install_esptool, lines 330-353 (SCons mode, line 400): a missing package
\* directory and a failed install are both fatal.
InstallEsptool ==
    /\ pc = "esptool"
    /\ mode = "scons"
    /\ \E dirOk \in BOOLEAN, probe \in ProbeOutcomes, ok \in {b \in BOOLEAN : b => uvExe[penvDir]} :
        IF ~dirOk
        THEN /\ calls' = Append(calls, DirCheck(dirOk))
             /\ Finish("exit1", Unset)
        ELSE /\ calls' = Append(calls, DirCheck(dirOk)) \o EsptoolCalls(penvDir, probe, ok)
             /\ IF NeedsInstall(probe) /\ ~ok
                THEN Finish("exit1", Unset)
                ELSE pc' = "certifi" /\ UNCHANGED <<result, retval>>
    /\ UNCHANGED procFrame
    /\ UNCHANGED depsLocals
    /\ UNCHANGED fsVars

\* _install_esptool_from_tl_install, lines 415-436 (minimal mode, lines 398
\* and 402): nothing here is fatal; should_install_esptool is the caller's.
InstallEsptoolTl ==
    /\ pc = "esptool"
    /\ mode = "minimal"
    /\ \E should \in BOOLEAN, dirOk \in BOOLEAN, probe \in ProbeOutcomes,
          ok \in {b \in BOOLEAN : b => uvExe[penvDir]} :
        IF ~should
        THEN UNCHANGED calls
        ELSE IF ~dirOk
        THEN calls' = Append(calls, DirCheck(dirOk))
        ELSE calls' = Append(calls, DirCheck(dirOk)) \o EsptoolCalls(penvDir, probe, ok)
    /\ pc' = "certifi"
    /\ UNCHANGED procFrame
    /\ UNCHANGED <<depsLocals, result, retval>>
    /\ UNCHANGED fsVars

\* _setup_certifi_env (438-468) and the return of line 404: the interpreter
\* path under penv_dir.
SetupCertifi ==
    /\ pc = "certifi"
    /\ Issue("certifi", <<penvDir>>)
    /\ Finish("returned", penvDir)
    /\ UNCHANGED procFrame
    /\ UNCHANGED depsLocals
    /\ UNCHANGED fsVars

\* ----------------------------------------------------------- specification

Next ==
    \/ Start
    \/ EnsureCheck \/ EnsureRmtree \/ EnsureUvVenv \/ EnsureWriteMarker
    \/ MinCheck \/ MinRmtree \/ MinUvVenv \/ MinMarkerUv \/ MinVenv \/ MinMarkerVenv
    \/ PkgCheck \/ PkgUvVenv \/ PkgVenv \/ PkgVerify \/ PkgWriteMarker
    \/ CorePython \/ CoreNet
    \/ DepsProbe \/ DepsBootstrap \/ DepsList \/ DepsInstall
    \/ InstallEsptool \/ InstallEsptoolTl \/ SetupCertifi
    \/ Kill

Spec == Init /\ [][Next]_vars

\* --------------------------------- get_packages_to_install as a pure function

\* Longest manifest the pure-function specification draws.
MaxDeps == 2

PkgNames == {"platformio", "alpha", "Beta"}
LowerNames == {Lower(n) : n \in PkgNames}

\* Requirement descriptors: a source URL ending in /v2.5.0.zip, a source URL
\* without a version token, ">=6.0.2", and ">=1.5.3,<6.0.2".
Requirements ==
    { Url(<<2, 5, 0>>), Url(NoToken),
      Range({Ge(<<6, 0, 2>>)}), Range({Ge(<<1, 5, 3>>), Lt(<<6, 0, 2>>)}) }

SemVers == {<<2, 5, 0>>, <<6, 0, 1>>, <<6, 0, 2>>}

Entries == [name : PkgNames, spec : Requirements]

\* Manifests of one to MaxDeps entries, the names case-insensitive-unique.
Manifests ==
    {m \in UNION {[1..n -> Entries] : n \in 1..MaxDeps} :
        \A i, j \in 1..Len(m) : i # j => Lower(m[i].name) # Lower(m[j].name)}

InstalledSets == [LowerNames -> SemVers \cup {Absent}]

InitPkgs ==
    /\ manifest \in Manifests
    /\ installed_packages \in InstalledSets
    /\ packages_to_install = <<>>
    /\ reconciled = NoReconcile
    /\ pc = "gpi_call"
    /\ rootExists = FALSE
    /\ marker = FALSE
    /\ python = [r \in Roots |-> FALSE]
    /\ uvExe = [r \in Roots |-> FALSE]
    /\ installed = [r \in Roots |-> NothingInstalled]
    /\ mode = "scons"
    /\ interpInside = FALSE
    /\ baseAlive = TRUE
    /\ runs = 0
    /\ penvDir = Unset
    /\ verdict = "none"
    /\ uvSuccess = FALSE
    /\ calls = <<>>
    /\ result = "none"
    /\ retval = Unset

\* One call of list(get_packages_to_install(deps, installed_packages)).
CallGetPackages ==
    /\ pc = "gpi_call"
    /\ packages_to_install' = get_packages_to_install(manifest, installed_packages)
    /\ pc' = "gpi_done"
    /\ UNCHANGED <<manifest, installed_packages, reconciled>>
    /\ UNCHANGED <<mode, interpInside, baseAlive, runs, penvDir, verdict, uvSuccess,
                   calls, result, retval>>
    /\ UNCHANGED fsVars

SpecPkgs == InitPkgs /\ [][CallGetPackages]_vars

\* ------------------------------------------------------------------ claims

HasCall(op) == \E i \in 1..Len(calls) : calls[i].op = op
CountCalls(op) == Cardinality({i \in 1..Len(calls) : calls[i].op = op})
LastCallIs(op) == calls # <<>> /\ calls[Len(calls)].op = op
Issued(op) == Len(calls') = Len(calls) + 1 /\ calls'[Len(calls')].op = op
ProvisioningOps == {"rmtree", "uv_venv", "venv", "write_marker"}

\* C1: a process whose own interpreter lies inside the environment root
\* never recursively deletes that root itself; the root is deleted only by a
\* process whose interpreter is outside it.
C1_NoInProcessDelete == interpInside => ~HasCall("rmtree")

\* C2: at every entry point that decides whether to provision, the health
\* check answers "healthy" exactly when both the marker file and the
\* interpreter file are present, and triggers a rebuild in the three other
\* combinations.
C2_HealthIffBoth ==
    [][(verdict = "none" /\ verdict' # "none")
           => (verdict' = "healthy" <=> (marker /\ python[PENV]))]_vars

\* C3: the marker file is written only once the interpreter executable inside
\* the root is present: every step that writes the marker finds the
\* interpreter file in place.
C3_MarkerAfterInterpreter == [][Issued("write_marker") => python[PENV]]_vars

\* C4: in every provisioning entry point a failure of the fast provisioner
\* is followed by an attempt with the built-in creation, so no run exits
\* fatally with the failed fast provisioner as its last call.
C4_FallbackEverywhere ==
    (pc = "idle" /\ result = "exit1") => ~LastCallIs("uv_venv")

\* C5: when the top-level setup (SCons mode or minimal mode) returns
\* normally, the environment at <platformio_dir>/penv is healthy: marker and
\* interpreter are both there.
C5_ReturnedHealthy ==
    (pc = "idle" /\ result = "returned" /\ mode \in {"scons", "minimal"})
        => (marker /\ python[PENV])

\* C6: in minimal mode the environment root the later steps operate on is
\* <platformio_dir>/penv, and a normal return hands back the interpreter
\* inside it.
C6_MinimalUsesPenv ==
    mode = "minimal" =>
        /\ penvDir \in {Unset, PENV}
        /\ (pc = "idle" /\ result = "returned") => retval = PENV

\* C7: a process killed during provisioning leaves an environment the health
\* check classifies unhealthy, and the next top-level setup run (SCons or
\* minimal mode) decides to rebuild it.
C7_KilledThenRebuilt ==
    result = "killed_provisioning" =>
        /\ pc = "idle" => ~IsHealthy
        /\ (mode \in {"scons", "minimal"} /\ verdict # "none" /\ runs > 1)
              => verdict = "rebuild"

C7_Witness ==
    /\ result = "killed_provisioning"
    /\ runs > 1
    /\ pc \in {"ensure_rmtree", "min_rmtree"}
    /\ verdict = "rebuild"
    /\ python[PENV]

\* C8: when the health check finds the environment healthy, provisioning is
\* a no-op: no recursive delete, no provisioner tool, no marker write, and
\* the root, its marker and its interpreter stay as they were.
C8_HealthyNoOp ==
    verdict = "healthy" =>
        /\ \A i \in 1..Len(calls) : calls[i].op \notin ProvisioningOps
        /\ rootExists /\ python[PENV]
        /\ mode \in {"scons", "minimal"} => marker

C8_Witness ==
    /\ verdict = "healthy"
    /\ pc = "idle"
    /\ result = "returned"
    /\ mode = "scons"
    /\ HasCall("certifi")

\* The selection the claim C9 describes, one entry at a time.
C9_Expected(e, inst) ==
    LET v == inst[Lower(e.name)] IN
    \/ v = Absent
    \/ v # Absent /\ e.spec.kind = "url" /\ e.spec.token # NoToken
         /\ v # pepver_to_semver(e.spec.token)
    \/ v # Absent /\ e.spec.kind = "range" /\ ~SimpleSpecMatch(e.spec, v)

RECURSIVE C9_ExpectedSeq(_, _, _)
C9_ExpectedSeq(deps, inst, i) ==
    IF i > Len(deps) THEN <<>>
    ELSE (IF C9_Expected(deps[i], inst) THEN <<deps[i].name>> ELSE <<>>)
             \o C9_ExpectedSeq(deps, inst, i + 1)

\* C9: for every manifest and installed set the packages selected are
\* exactly the absent entries, the present source-reference entries whose
\* extracted version differs from the installed one, and the present range
\* entries the installed version does not satisfy, under any package name.
C9_SelectionExact ==
    pc = "gpi_done" =>
        packages_to_install = C9_ExpectedSeq(manifest, installed_packages, 1)

ReconcileReturned ==
    /\ HasCall("uv_pip_list")
    /\ \/ pc \in {"esptool", "certifi"}
       \/ pc = "idle" /\ result = "returned"

\* C10: one reconcile run issues exactly one batched install holding one
\* entry per selected package when the delta is not empty, and no install at
\* all when the delta is empty.
C10_OneBatchedInstall ==
    /\ CountCalls("uv_pip_install") <= 1
    /\ \A i \in 1..Len(calls) :
          calls[i].op = "uv_pip_install" =>
              /\ packages_to_install # <<>>
              /\ Len(calls[i].args) = Len(packages_to_install)
              /\ \A k \in 1..Len(packages_to_install) :
                    calls[i].args[k].req = SpecOf(packages_to_install[k])
    /\ ReconcileReturned =>
          CountCalls("uv_pip_install") = (IF packages_to_install # <<>> THEN 1 ELSE 0)

C10_Witness ==
    /\ ReconcileReturned
    /\ Len(packages_to_install) = 2
    /\ CountCalls("uv_pip_install") = 1

C10_WitnessEmpty ==
    /\ ReconcileReturned
    /\ packages_to_install = <<>>


\* The listing of this run reported every installed package ("ok").
ListingOk == \E i \in 1..Len(calls) : calls[i].op = "uv_pip_list" /\ calls[i].out = "ok"

\* An earlier run's reconcile returned True for the environment this run
\* works on, and the packages in it are what that reconcile left.
ReconciledBefore ==
    /\ reconciled.run > 0
    /\ reconciled.run < runs
    /\ penvDir = reconciled.root
    /\ installed[penvDir] = reconciled.pkgs

\* C11: reconciliation is idempotent. After a reconcile that returned True
\* for an environment, a later run on the same environment with the packages
\* unchanged, whose listing reports them, selects nothing and its install
\* step issues no call.
C11_Idempotent ==
    [][(pc = "deps_install" /\ ReconciledBefore /\ ListingOk)
          => (packages_to_install = <<>> /\ calls' = calls)]_vars

C11_Witness ==
    /\ pc = "deps_install"
    /\ ReconciledBefore
    /\ ListingOk
    /\ reconciled.n > 0
    /\ packages_to_install = <<>>

\* The calls install_python_deps makes.
ReconcileOps == {"uv_version", "uv_pip_install_uv", "pip_install_uv", "uv_pip_list",
                 "uv_pip_install"}
EsptoolOps == {"get_package_dir", "esptool_probe", "esptool_install"}
NoReconcileCall == \A j \in 1..Len(calls) : calls[j].op \notin ReconcileOps

\* C12: reconciliation is entered exactly when the probe says online or the
\* CI override is set. After "offline" without the override no call of the
\* reconcile is made, the run is at the esptool or certifi step or has ended,
\* and if it ended with exit 1 its last call was one of the SCons esptool
\* installer; after "online" or with the override the reconcile is about to
\* probe uv or has probed it, unless the process was killed right there.
C12_ReconcileIffOnline ==
    \A i \in 1..Len(calls) :
        calls[i].op = "net" =>
            IF calls[i].args = <<"offline", "noci">>
            THEN /\ NoReconcileCall
                 /\ \/ pc \in {"esptool", "certifi"}
                    \/ pc = "idle" /\ result \in {"returned", "killed"}
                    \/ /\ pc = "idle"
                       /\ result = "exit1"
                       /\ mode = "scons"
                       /\ calls[Len(calls)].op \in EsptoolOps
            ELSE \/ pc = "deps_probe"
                 \/ HasCall("uv_version")
                 \/ pc = "idle" /\ result = "killed" /\ LastCallIs("net")

C12_Witness ==
    /\ \E i \in 1..Len(calls) :
          calls[i].op = "net" /\ calls[i].args = <<"offline", "noci">>
    /\ pc = "idle"
    /\ result = "returned"
    /\ HasCall("certifi")
    /\ NoReconcileCall

\* C13: when uv is not inside the environment, the bootstrap step of the
\* reconcile installs it there with the baseline installer ("python -m pip")
\* and goes on to the listing; the absence alone does not end the run.
C13_BaselineBootstrap ==
    [][(pc = "deps_bootstrap" /\ ~uvExe[penvDir] /\ calls' # calls)
          => (Issued("pip_install_uv") /\ pc' \in {"deps_list", "idle"})]_vars

\* C14: whenever the listing could not be invoked or its output could not be
\* read to the end, the installed set is empty and every manifest entry is
\* selected; the failure does not end the run with exit 1.
C14_ListingFailureEmpties ==
    (LastCallIs("uv_pip_list") /\ calls[Len(calls)].out # "ok")
        => /\ installed_packages = NothingInstalled
           /\ packages_to_install = [i \in 1..Len(manifest) |-> manifest[i].name]
           /\ ~(pc = "idle" /\ result = "exit1")

\* The calls of install_python_deps whose failure returns False.
InstallOps == {"uv_pip_install_uv", "pip_install_uv", "uv_pip_install"}

\* C15: a failed batched install is the last thing the run does: the process
\* has ended with exit code 1 and neither the esptool installer nor the
\* certifi setup ran after it; and a run that returned normally holds no
\* failed install call of the reconcile.
C15_InstallFailureFatal ==
    /\ \A i \in 1..Len(calls) :
          (calls[i].op = "uv_pip_install" /\ calls[i].out = "failed")
              => (i = Len(calls) /\ pc = "idle" /\ result = "exit1")
    /\ (pc = "idle" /\ result = "returned")
          => \A j \in 1..Len(calls) :
                 calls[j].op \in InstallOps => calls[j].out # "failed"

C15_Witness ==
    /\ pc = "idle"
    /\ result = "exit1"
    /\ LastCallIs("uv_pip_install")
    /\ calls[Len(calls)].out = "failed"
    /\ ~HasCall("get_package_dir")
    /\ ~HasCall("certifi")

\* C16: a present package whose requirement is a source reference without a
\* trailing version token is decided "skip", and is not among the selected
\* packages, whatever its installed version and under any package name.
C16_NoTokenAssumedSatisfied ==
    pc = "gpi_done" =>
        \A i \in 1..Len(manifest) :
            (/\ manifest[i].spec = Url(NoToken)
             /\ installed_packages[Lower(manifest[i].name)] # Absent)
                => /\ Decide(manifest[i].name, manifest[i].spec, installed_packages) = "skip"
                   /\ packages_to_install # Raised
                         => manifest[i].name \notin Range1(packages_to_install)

\* C17: the delta computation always completes: for every manifest and
\* installed set get_packages_to_install gives a list of names and never
\* raises.
C17_NeverRaises == pc = "gpi_done" => packages_to_install # Raised

\* C18: when the esptool package directory is absent or not a directory, the
\* esptool installer does nothing in either mode: no probe, no install, and
\* the run does not end with exit 1.
C18_AbsentDirNoOp ==
    \A i \in 1..Len(calls) :
        (calls[i].op = "get_package_dir" /\ calls[i].out = "absent")
            => /\ ~HasCall("esptool_probe")
               /\ ~HasCall("esptool_install")
               /\ ~(pc = "idle" /\ result = "exit1")

\* C19: a process running from the interpreter inside the root that has
\* detected the rebuild condition issues one call only, the launch of the
\* detached helper, and has then exited with code 0; deleting, provisioning
\* and writing the marker are left to the helper.
C19_HelperProtocol ==
    (interpInside /\ verdict = "rebuild" /\ calls # <<>>)
        => /\ calls[1].op = "spawn_helper"
           /\ Len(calls) = 1
           /\ pc = "idle"
           /\ result = "exit0"

\* C20: one run of the esptool installer probes once; after a probe that
\* printed MATCH no install is issued, and after a mismatch or a failed probe
\* the very next call is the one forced editable install, with no second
\* attempt.
C20_ProbeThenOneInstall ==
    /\ CountCalls("esptool_probe") <= 1
    /\ CountCalls("esptool_install") <= 1
    /\ \A i \in 1..Len(calls) :
          calls[i].op = "esptool_probe" =>
              IF calls[i].out = "MATCH"
              THEN ~HasCall("esptool_install")
              ELSE /\ i < Len(calls)
                   /\ calls[i + 1].op = "esptool_install"
                   /\ calls[i + 1].args = <<penvDir, "--force-reinstall", "-e">>
    /\ \A i \in 1..Len(calls) :
          calls[i].op = "esptool_install" => (i > 1 /\ calls[i - 1].op = "esptool_probe")

C20_Witness ==
    /\ \E i \in 1..Len(calls) : calls[i].op = "esptool_probe" /\ calls[i].out = "error"
    /\ CountCalls("esptool_install") = 1
    /\ pc = "certifi"

====
